---- MODULE Spec2Model ----
(***************************************************************************)
(* A model of the dead-code analyser: the declaration index and usage      *)
(* classifier of enhanced_analyzer.py / code_analyzer.py, the advisory     *)
(* bridge (LLMAnalyzer), tree-level removal and the unified diff, and the  *)
(* command-line run of main(), the requests of the web backend             *)
(* (backend/main.py) and analyser instances running side by side.          *)
(*                                                                         *)
(* A source text is a sequence of lines.  A line carries its indentation   *)
(* depth and the one construct written on it; the syntax tree is the       *)
(* sequence of its nodes in document order, each with its nesting depth.   *)
(* Names are sequences of characters so that startswith() is computed.     *)
(***************************************************************************)
EXTENDS Integers, Sequences, FiniteSets, TLC

VARIABLES
    source,          \* text of the file under analysis (sequence of lines)
    api_key,         \* --openai-key / openai_key given to LLMAnalyzer
    LLM_AVAILABLE,   \* enhanced_analyzer.py:29/31, set at import
    client,          \* LLMAnalyzer.client
    pc,              \* position of the run
    tree,            \* ast.parse(source)
    function_defs,   \* dict name -> node, as a sequence of items in insertion order
    function_calls,  \* callee names collected from the call expressions
    async_funcs,     \* detect_async_patterns(tree)
    threaded_funcs,  \* detect_threading_patterns(tree)
    k,               \* number of items of function_defs the loop has consumed
    analyses,        \* list of FunctionAnalysis records
    unused,          \* code_analyzer.find_unused_functions(tree)
    remote_calls,    \* the remote calls issued so far: function name and outcome
    unused_funcs,    \* the names given to remove_dead_code_from_source
    cleaned_code,    \* the text a removal strategy produced
    diff,            \* the lines difflib.unified_diff yielded
    dead_functions,  \* DeadCodeDetector.analyze_file(filepath)
    files,           \* main(): filepaths, as the texts of the files
    fi,              \* main(): number of files the loop has consumed
    args,            \* main(): the parsed command-line flags
    original_code,   \* main(): the local original_code, unbound at first
    all_analyses,    \* main(): all_analyses
    written,         \* main(): the cleaned files --safe-remove has written
    tracker,         \* main(): EnergyTracker.tracker
    exception,       \* the exception that ended the run, if any
    baseline,        \* the analyses of the text before a loop was added to it
    uploaded_files,  \* backend/main.py:41, the registry file_id -> file info
    temp_dirs,       \* the directories tempfile.mkdtemp() made and not yet removed
    made_dirs,       \* number of directories tempfile.mkdtemp() has made
    response,        \* the response to the last backend request
    openai_api_key,  \* the module attribute openai.api_key
    runs             \* the analyser instances running side by side

inputVars == <<source, api_key, LLM_AVAILABLE>>
analysisVars == <<client, tree, function_defs, function_calls, async_funcs,
                  threaded_funcs, k, analyses, unused, remote_calls>>
removalVars == <<unused_funcs, cleaned_code, diff, dead_functions>>
mainVars == <<files, fi, args, original_code, all_analyses, written, tracker>>
backendVars == <<uploaded_files, temp_dirs, made_dirs, response>>
parallelVars == <<openai_api_key, runs>>
otherVars == <<baseline, backendVars, parallelVars>>

vars == <<inputVars, analysisVars, removalVars, mainVars, pc, exception, otherVars>>

-----------------------------------------------------------------------------
(* Bounds of the model.                                                    *)

MaxLines == 3
MaxSourceLines == 3
MaxDiffLines == 5
MaxFiles == 2
HeavyLoops == 6

-----------------------------------------------------------------------------
(* Names and strings.                                                      *)

NoName == <<>>
NameA == <<"a">>
NameB == <<"b">>
NameMagic == <<"_", "_", "m">>
NameDead == <<"u", "n", "u", "s", "e", "d", "_", "f">>

\* str.startswith(prefix)
startswith(s, prefix) ==
    /\ Len(s) >= Len(prefix)
    /\ SubSeq(s, 1, Len(prefix)) = prefix

ReservedPrefix == <<"_", "_">>

\* None, for the optional string fields of FunctionAnalysis
None == <<"None">>

-----------------------------------------------------------------------------
(* Lines and texts.                                                        *)

BlockKinds == {"FunctionDef", "AsyncFunctionDef", "ClassDef", "For", "While",
               "AsyncFor", "If", "Try"}
LayoutKinds == {"Comment", "Blank"}

MkLine(ind, kind, name, func) ==
    [ind |-> ind, kind |-> kind, name |-> name, func |-> func, nl |-> TRUE]

\* an empty line, and a line holding only a comment
BlankLine == MkLine(0, "Blank", NoName, "")
CommentLine == MkLine(0, "Comment", NoName, "")

IsSignificant(l) == l.kind \notin LayoutKinds

RECURSIVE LastSignificant(_)
LastSignificant(text) ==
    IF text = <<>> THEN 0
    ELSE IF IsSignificant(text[Len(text)]) THEN Len(text)
    ELSE LastSignificant(SubSeq(text, 1, Len(text) - 1))

\* A line may follow a text when the result still parses: the first
\* construct is at depth 0, and a construct is nested at most one level
\* deeper than the construct before it, which must then open a block.
MayFollow(text, l) ==
    LET p == LastSignificant(text) IN
    IF ~IsSignificant(l) THEN l.ind = 0
    ELSE IF p = 0 THEN l.ind = 0
    ELSE \/ l.ind <= text[p].ind
         \/ l.ind = text[p].ind + 1 /\ text[p].kind \in BlockKinds

RECURSIVE TextsOver(_, _)
TextsOver(shapes, n) ==
    IF n = 0 THEN {<<>>}
    ELSE LET shorter == TextsOver(shapes, n - 1) IN
         shorter \cup
         { Append(t, [s EXCEPT !.ind = d]) :
             <<t, s, d>> \in { x \in shorter \X shapes \X (0..(n - 1)) :
                               /\ Len(x[1]) = n - 1
                               /\ MayFollow(x[1], [x[2] EXCEPT !.ind = x[3]]) } }

\* The same text without the newline that ends its last line.
NoFinalNewline(text) ==
    IF text = <<>> THEN text
    ELSE [text EXCEPT ![Len(text)].nl = FALSE]

-----------------------------------------------------------------------------
(* The syntax tree.                                                        *)

MkNode(ind, kind, name, func) ==
    [ind |-> ind, kind |-> kind, name |-> name, func |-> func]

NodeOf(l) == MkNode(l.ind, l.kind, l.name, l.func)

RECURSIVE ParseFrom(_, _)
ParseFrom(sig, i) ==
    IF i > Len(sig) THEN <<>>
    ELSE LET l == sig[i]
             hasBody == i < Len(sig) /\ sig[i + 1].ind > l.ind
         IN  <<NodeOf(l)>>
             \o (IF l.kind \in BlockKinds /\ ~hasBody
                 THEN <<MkNode(l.ind + 1, "Pass", NoName, "")>>
                 ELSE <<>>)
             \o ParseFrom(sig, i + 1)

\* ast.parse: comments, blank lines and formatting are not part of the tree;
\* a block written on one line ("def a(): pass") has the body [Pass].
ast_parse(text) == ParseFrom(SelectSeq(text, IsSignificant), 1)

\* the last node of the subtree rooted at node i: the nodes after i that
\* lie deeper than i belong to it, up to the first that does not
RECURSIVE SubtreeEnd(_, _, _)
SubtreeEnd(t, i, j) ==
    IF j < Len(t) /\ t[j + 1].ind > t[i].ind THEN SubtreeEnd(t, i, j + 1) ELSE j

\* the nodes of the subtree rooted at node i (i included)
Subtree(t, i) == i..SubtreeEnd(t, i, i)

\* the statements of node.body
Body(t, i) == { j \in Subtree(t, i) : t[j].ind = t[i].ind + 1 }

\* tree.body of the module
ModuleBody(t) == { j \in 1..Len(t) : t[j].ind = 0 }

MaxDepth(t) ==
    IF t = <<>> THEN 0
    ELSE CHOOSE d \in { t[i].ind : i \in 1..Len(t) } :
             \A i \in 1..Len(t) : t[i].ind <= d

IndicesAtDepth(t, d) == SelectSeq([j \in 1..Len(t) |-> j], LAMBDA j : t[j].ind = d)

RECURSIVE WalkFrom(_, _, _)
WalkFrom(t, d, deepest) ==
    IF d > deepest THEN <<>>
    ELSE IndicesAtDepth(t, d) \o WalkFrom(t, d + 1, deepest)

\* ast.walk(tree): breadth first, so level by level and in document order
\* within a level.
ast_walk(t) == WalkFrom(t, 0, MaxDepth(t))

\* ast.walk(node) of the subtree of node i
WalkNode(t, i) == SelectSeq(ast_walk(t), LAMBDA j : j \in Subtree(t, i))

-----------------------------------------------------------------------------
(* Declaration index and call index.                                       *)

\* a faulty variant: a key already present keeps its old value
DictSet_KeepFirst(d, key, value) ==
    IF \E i \in 1..Len(d) : d[i].name = key
    THEN d
    ELSE Append(d, [name |-> key, node |-> value])

\* d[key] = value on a dict kept as the sequence of its items: a key already
\* present keeps its position and takes the new value.
DictSet(d, key, value) ==
    IF \E i \in 1..Len(d) : d[i].name = key
    THEN [i \in 1..Len(d) |->
            IF d[i].name = key THEN [name |-> key, node |-> value] ELSE d[i]]
    ELSE Append(d, [name |-> key, node |-> value])

RECURSIVE DictFrom(_, _, _)
DictFrom(t, nodes, i) ==
    IF i = 0 THEN <<>>
    ELSE DictSet(DictFrom(t, nodes, i - 1), t[nodes[i]].name, nodes[i])

IsFunctionDef(n) == n.kind = "FunctionDef"

\* {node.name: node for node in ast.walk(tree) if isinstance(node, ast.FunctionDef)}
find_function_defs(t) ==
    LET nodes == SelectSeq(ast_walk(t), LAMBDA i : IsFunctionDef(t[i]))
    IN  DictFrom(t, nodes, Len(nodes))

DictKeys(d) == { d[i].name : i \in 1..Len(d) }

DictGet(d, key) == (CHOOSE i \in 1..Len(d) : d[i].name = key)

\* a faulty variant: the ast.Attribute branch is missing
ContributesCallee_NameOnly(n) == n.kind = "Call" /\ n.func = "Name"

\* a call contributes node.func.id (ast.Name) or node.func.attr (ast.Attribute)
ContributesCallee(n) == n.kind = "Call" /\ n.func \in {"Name", "Attribute"}

find_function_calls(t) ==
    LET nodes == SelectSeq(ast_walk(t), LAMBDA i : ContributesCallee(t[i]))
    IN  [i \in 1..Len(nodes) |-> t[nodes[i]].name]

InList(x, list) == \E i \in 1..Len(list) : list[i] = x

\* code_analyzer.find_unused_functions
IsUnusedName(name, calls) ==
    ~InList(name, calls) /\ ~startswith(name, ReservedPrefix)

find_unused_functions(t) ==
    LET defs == find_function_defs(t)
        calls == find_function_calls(t)
    IN  SelectSeq([i \in 1..Len(defs) |-> defs[i].name],
                  LAMBDA name : IsUnusedName(name, calls))

-----------------------------------------------------------------------------
(* Usage classifier: async and threading patterns.                         *)

\* for parent in ast.walk(tree): if isinstance(parent, kind) and node in
\* ast.walk(parent): append(parent.name); break
FirstEnclosing(t, j, kind) ==
    LET c == SelectSeq(ast_walk(t),
                       LAMBDA p : t[p].kind = kind /\ j \in Subtree(t, p))
    IN  IF c = <<>> THEN {} ELSE {t[c[1]].name}

detect_async_patterns(t) ==
    { t[i].name : i \in { j \in 1..Len(t) : t[j].kind = "AsyncFunctionDef" } }
    \cup UNION { FirstEnclosing(t, j, "AsyncFunctionDef") :
                   j \in { m \in 1..Len(t) : t[m].kind = "Await" } }

ThreadLifecycle == { <<"s", "t", "a", "r", "t">>, <<"r", "u", "n">>,
                     <<"j", "o", "i", "n">> }

detect_threading_patterns(t) ==
    UNION { FirstEnclosing(t, j, "FunctionDef") :
              j \in { m \in 1..Len(t) : /\ t[m].kind = "Call"
                                        /\ t[m].func = "Attribute"
                                        /\ t[m].name \in ThreadLifecycle } }

-----------------------------------------------------------------------------
(* Cost estimator.                                                         *)

CountKinds(t, i, kinds) ==
    Cardinality({ j \in Subtree(t, i) : t[j].kind \in kinds })

\* a faulty variant: only the statements of the body are looked at, not what
\* is nested in them
analyze_function_complexity_BodyOnly(t, i) ==
      Cardinality({ j \in Body(t, i) : t[j].kind \in {"BinOp", "Compare"} })
    + 10 * Cardinality({ j \in Body(t, i) : t[j].kind \in {"For", "While"} })
    + 5 * Cardinality({ j \in Body(t, i) : t[j].kind = "Call" })

\* analyze_function_complexity
analyze_function_complexity(t, i) ==
      CountKinds(t, i, {"BinOp"})
    + CountKinds(t, i, {"Compare"})
    + 10 * CountKinds(t, i, {"For", "While"})
    + 5 * CountKinds(t, i, {"Call"})

\* a faulty variant: every statement below the function counts for 2
estimate_function_energy_AllStatements(t, i) ==
    (Cardinality(Subtree(t, i)) - 1) * 2
    + 5 * CountKinds(t, i, {"For", "While", "If", "Try"})

\* EnergyTracker.estimate_function_energy, in tenths of a joule: the code
\* returns complexity_score * 0.1
estimate_function_energy(t, i) ==
    Cardinality(Body(t, i)) * 2
    + 5 * CountKinds(t, i, {"For", "While", "If", "Try"})

-----------------------------------------------------------------------------
(* Advisory bridge.                                                        *)

Key == <<"s", "k">>
NoClient == "None"
OpenAIClient == "client"

\* a faulty variant: "if LLM_AVAILABLE:" without the test of the key
Truthy_Always(s) == TRUE

Truthy(s) == s # None /\ s # <<>>

\* what the remote call does: it raises, or it returns a JSON object with
\* both keys, a JSON object without them, or text that is not JSON
RemoteOutcomes == {"raises", "json", "json_without_keys", "text"}

FailureReason == "timeout"
Unavailable == <<"llm analysis not available">>
EnableKey == <<"enable openai api key for ai suggestions">>
GenericSuggestion == <<"check api configuration">>

NoException == "none"

Returns(explanation, suggestion) ==
    [raised |-> NoException, explanation |-> explanation, suggestion |-> suggestion]

Raises(e) == [raised |-> e, explanation |-> None, suggestion |-> None]

\* a faulty variant: the remote call outside any try/except
analyze_function_usefulness_NoTry(cl, outcome) ==
    IF cl = NoClient THEN Returns(Unavailable, EnableKey)
    ELSE CASE outcome = "raises" -> Raises(FailureReason)
           [] outcome = "json" ->
                Returns(<<"explanation">>, <<"suggestion">>)
           [] outcome = "json_without_keys" ->
                Returns(<<"no explanation">>, <<"no suggestion">>)
           [] OTHER ->
                Returns(<<"result">>, <<"see explanation above">>)

\* LLMAnalyzer.analyze_function_usefulness: the (explanation, suggestion) it
\* returns; the try/except around the remote call turns an exception of the
\* call into a result.
analyze_function_usefulness(cl, outcome) ==
    IF cl = NoClient THEN Returns(Unavailable, EnableKey)
    ELSE CASE outcome = "raises" ->
                Returns(<<"llm analysis failed: ", FailureReason>>, GenericSuggestion)
           [] outcome = "json" ->
                Returns(<<"explanation">>, <<"suggestion">>)
           [] outcome = "json_without_keys" ->
                Returns(<<"no explanation">>, <<"no suggestion">>)
           [] OTHER ->
                Returns(<<"result">>, <<"see explanation above">>)

\* create_function_analysis
create_function_analysis(function_name, t, function_node, is_unused, asyncs, threadeds, cl, outcome) ==
    LET ai == IF is_unused
              THEN analyze_function_usefulness(cl, outcome)
              ELSE Returns(None, None)
    IN  [raised |-> ai.raised,
         name |-> function_name,
         is_unused |-> is_unused,
         is_async |-> function_name \in asyncs,
         is_threaded |-> function_name \in threadeds,
         line_count |-> Cardinality(Body(t, function_node)),
         estimated_flops |-> analyze_function_complexity(t, function_node),
         energy_impact |-> estimate_function_energy(t, function_node),
         ai_explanation |-> ai.explanation,
         ai_suggestion |-> ai.suggestion]

-----------------------------------------------------------------------------
(* One analysis run: LLMAnalyzer(api_key), then analyze_file_enhanced.     *)

\* the FunctionAnalysis dataclass
FunctionAnalysis(r) ==
    [name |-> r.name, is_unused |-> r.is_unused, is_async |-> r.is_async,
     is_threaded |-> r.is_threaded, line_count |-> r.line_count,
     estimated_flops |-> r.estimated_flops, energy_impact |-> r.energy_impact,
     ai_explanation |-> r.ai_explanation, ai_suggestion |-> r.ai_suggestion]

\* openai.api_key after LLMAnalyzer.__init__: the attribute of the openai
\* module, one per process, is overwritten by every analyzer given a key
openai_module_key(available, key, current) ==
    IF available /\ Truthy(key) THEN key ELSE current

\* the client LLMAnalyzer.__init__ sets
LLMAnalyzer_client(available, key) ==
    IF available /\ Truthy(key) THEN OpenAIClient ELSE NoClient

\* LLMAnalyzer.__init__
LLMAnalyzer_init ==
    /\ pc = "new"
    /\ openai_api_key' = openai_module_key(LLM_AVAILABLE, api_key, openai_api_key)
    /\ client' = LLMAnalyzer_client(LLM_AVAILABLE, api_key)
    /\ pc' = "ready"
    /\ UNCHANGED <<baseline, backendVars, runs, inputVars, tree, function_defs, function_calls, async_funcs,
                   threaded_funcs, k, analyses, unused, remote_calls,
                   removalVars, mainVars, exception>>

\* analyze_file_enhanced up to the loop over function_defs.items()
analyze_file_enhanced_index ==
    /\ pc = "ready"
    /\ tree' = ast_parse(source)
    /\ function_defs' = find_function_defs(tree')
    /\ function_calls' = find_function_calls(tree')
    /\ async_funcs' = detect_async_patterns(tree')
    /\ threaded_funcs' = detect_threading_patterns(tree')
    /\ k' = 0
    /\ analyses' = <<>>
    /\ pc' = "loop"
    /\ UNCHANGED <<otherVars, inputVars, client, unused, remote_calls, removalVars,
                   mainVars, exception>>

\* one iteration of "for name, node in function_defs.items()"; the remote
\* call is issued only for an unused function and only with a client
analyze_file_enhanced_step ==
    /\ pc = "loop"
    /\ k < Len(function_defs)
    /\ LET name == function_defs[k + 1].name
           node == function_defs[k + 1].node
           is_unused == ~InList(name, function_calls)
       IN  IF startswith(name, ReservedPrefix)
           THEN /\ k' = k + 1
                /\ UNCHANGED <<analyses, remote_calls, pc, exception>>
           ELSE \E outcome \in RemoteOutcomes :
                  LET a == create_function_analysis(name, tree, node, is_unused,
                               async_funcs, threaded_funcs, client, outcome)
                  IN  /\ remote_calls' =
                            IF is_unused /\ client # NoClient
                            THEN Append(remote_calls,
                                        [name |-> name, outcome |-> outcome])
                            ELSE remote_calls
                      /\ IF a.raised = NoException
                         THEN /\ analyses' = Append(analyses, FunctionAnalysis(a))
                              /\ k' = k + 1
                              /\ UNCHANGED <<pc, exception>>
                         ELSE /\ pc' = "aborted"
                              /\ exception' = a.raised
                              /\ UNCHANGED <<analyses, k>>
    /\ UNCHANGED <<otherVars, inputVars, client, tree, function_defs, function_calls,
                   async_funcs, threaded_funcs, unused, removalVars, mainVars>>

\* return analyses
analyze_file_enhanced_return ==
    /\ pc = "loop"
    /\ k = Len(function_defs)
    /\ pc' = "done"
    /\ UNCHANGED <<otherVars, inputVars, analysisVars, removalVars, mainVars, exception>>

\* code_analyzer.analyze_file: the report of the basic analyser
code_analyzer_analyze_file ==
    /\ pc = "new"
    /\ tree' = ast_parse(source)
    /\ unused' = find_unused_functions(tree')
    /\ pc' = "basic_done"
    /\ UNCHANGED <<otherVars, inputVars, client, function_defs, function_calls, async_funcs,
                   threaded_funcs, k, analyses, remote_calls, removalVars,
                   mainVars, exception>>

AnalysisShapes ==
    { MkLine(0, "FunctionDef", name, "") : name \in {NameA, NameB, NameMagic} }
    \cup { MkLine(0, "AsyncFunctionDef", NameA, ""),
           MkLine(0, "Call", NameA, "Name"),
           MkLine(0, "Call", NameB, "Name"),
           MkLine(0, "Call", NameA, "Attribute"),
           MkLine(0, "ClassDef", NoName, "") }

AnalysisTexts == TextsOver(AnalysisShapes, MaxLines)

Unbound == [bound |-> FALSE, text |-> <<>>]

NoArgs == [show_diff |-> FALSE, safe_remove |-> FALSE,
           rewrite_inefficient |-> FALSE, track_energy |-> FALSE]

AnalysisIdle ==
    /\ client = NoClient
    /\ tree = <<>>
    /\ function_defs = <<>>
    /\ function_calls = <<>>
    /\ async_funcs = {}
    /\ threaded_funcs = {}
    /\ k = 0
    /\ analyses = <<>>
    /\ unused = <<>>
    /\ remote_calls = <<>>

RemovalIdle ==
    /\ unused_funcs = <<>>
    /\ cleaned_code = <<>>
    /\ diff = <<>>
    /\ dead_functions = <<>>

NoResponse == [status |-> 0, op |-> "none", file_id |-> 0]

\* the backend has served no request and no second instance is running
OtherIdle ==
    /\ baseline = <<>>
    /\ uploaded_files = <<>>
    /\ temp_dirs = {}
    /\ made_dirs = 0
    /\ response = NoResponse
    /\ openai_api_key = None
    /\ runs = <<>>

MainIdle ==
    /\ OtherIdle
    /\ files = <<>>
    /\ fi = 0
    /\ args = NoArgs
    /\ original_code = Unbound
    /\ all_analyses = <<>>
    /\ written = <<>>
    /\ tracker = "None"

Init ==
    /\ source \in AnalysisTexts
    /\ api_key \in {None, Key}
    /\ LLM_AVAILABLE \in BOOLEAN
    /\ pc = "new"
    /\ exception = NoException
    /\ AnalysisIdle
    /\ RemovalIdle
    /\ MainIdle

Next ==
    \/ LLMAnalyzer_init
    \/ analyze_file_enhanced_index
    \/ analyze_file_enhanced_step
    \/ analyze_file_enhanced_return
    \/ code_analyzer_analyze_file

Spec == Init /\ [][Next]_vars

-----------------------------------------------------------------------------
(* Properties of the analysis run.                                         *)

\* the function declarations of a tree, synchronous and asynchronous
Declarations(t) ==
    { i \in 1..Len(t) : t[i].kind \in {"FunctionDef", "AsyncFunctionDef"} }

\* the callee names of the call expressions of a tree
CalleeNames(t) ==
    { t[i].name : i \in { j \in 1..Len(t) : /\ t[j].kind = "Call"
                                            /\ t[j].func \in {"Name", "Attribute"} } }

IsReserved(name) == Len(name) >= 2 /\ name[1] = "_" /\ name[2] = "_"

RecordsNamed(name) == { i \in 1..Len(analyses) : analyses[i].name = name }

\* some call to x is written inside the body of a declaration named y
CalledWithin(t, x, y) ==
    \E d \in Declarations(t) : \E c \in Subtree(t, d) :
        /\ t[d].name = y
        /\ t[c].kind = "Call" /\ t[c].func \in {"Name", "Attribute"}
        /\ t[c].name = x

\* C1: every reported function is unused exactly when its name is not a
\* callee name of the module and does not start with '__' (both analysers);
\* when y calls x and nothing calls y, x is reported used and y unused; a
\* function called only from its own body is reported used.
C1_UnusedIffNotCalled ==
    LET t == ast_parse(source) IN
    /\ \A i \in 1..Len(analyses) :
          analyses[i].is_unused <=>
              (analyses[i].name \notin CalleeNames(t) /\ ~IsReserved(analyses[i].name))
    /\ pc = "basic_done" =>
          \A d \in Declarations(t) :
              t[d].kind = "FunctionDef" =>
                  (InList(t[d].name, unused) <=>
                      (t[d].name \notin CalleeNames(t) /\ ~IsReserved(t[d].name)))
    /\ pc = "done" =>
          \A i \in 1..Len(analyses) : \A j \in 1..Len(analyses) :
              LET x == analyses[i].name
                  y == analyses[j].name
              IN  /\ (CalledWithin(t, x, y) /\ y \notin CalleeNames(t)) =>
                          (~analyses[i].is_unused /\ analyses[j].is_unused)
                  /\ CalledWithin(t, x, x) => ~analyses[i].is_unused

\* b calls a, nothing calls b, and the run has reported a used and b unused
C1_Witness ==
    /\ pc = "done"
    /\ CalledWithin(tree, NameA, NameB)
    /\ NameB \notin CalleeNames(tree)
    /\ \E i \in RecordsNamed(NameA) : ~analyses[i].is_unused
    /\ \E j \in RecordsNamed(NameB) : analyses[j].is_unused

\* C2: in a module where no call names a declared function, every declared
\* function (top-level, nested, method, synchronous or asynchronous) whose
\* name does not start with '__' is reported unused.
C2_AllDeclaredReportedUnused ==
    (/\ pc = "done"
     /\ \A d \in Declarations(tree) : tree[d].name \notin CalleeNames(tree))
    => \A d \in Declarations(tree) :
          ~IsReserved(tree[d].name) =>
              \E i \in RecordsNamed(tree[d].name) : analyses[i].is_unused

\* the records made from declaration d: those with its name, when the index
\* maps that name to d
RecordsOf(d) ==
    { i \in RecordsNamed(tree[d].name) :
        \E m \in 1..Len(function_defs) :
            function_defs[m].name = tree[d].name /\ function_defs[m].node = d }

\* C3: after a run the result holds exactly one record for every function
\* declaration of the module.
C3_OneRecordPerDeclaration ==
    pc = "done" => \A d \in Declarations(tree) : Cardinality(RecordsOf(d)) = 1

HasRecords(names) == \A name \in names : ~IsReserved(name) => RecordsNamed(name) # {}

Range(f) == { f[i] : i \in DOMAIN f }

\* C9: with no key, or without the LLM libraries, the run completes and every
\* function reported unused carries the two fixed placeholder strings.
C9_PlaceholderWithoutAdvisory ==
    (api_key = None \/ ~LLM_AVAILABLE) =>
        /\ pc # "aborted" /\ exception = NoException
        /\ (pc = "loop" /\ k < Len(function_defs)) => ENABLED analyze_file_enhanced_step
        /\ (pc = "loop" /\ k = Len(function_defs)) => ENABLED analyze_file_enhanced_return
        /\ pc = "done" => HasRecords(DictKeys(function_defs))
        /\ \A i \in 1..Len(analyses) :
              analyses[i].is_unused =>
                  /\ analyses[i].ai_explanation = Unavailable
                  /\ analyses[i].ai_suggestion = EnableKey

\* a completed run without advisory capability that reported an unused function
C9_Witness ==
    /\ pc = "done"
    /\ api_key = None \/ ~LLM_AVAILABLE
    /\ \E i \in 1..Len(analyses) :
          analyses[i].is_unused /\ analyses[i].ai_explanation = Unavailable

\* C10: when the remote call raises for an unused function, nothing escapes
\* the bridge: the function's explanation contains the failure reason, its
\* suggestion is the generic one, and the loop goes on over the remaining
\* functions to the end of the run.
C10_RemoteFailureFolded ==
    /\ pc # "aborted" /\ exception = NoException
    /\ \A c \in 1..Len(remote_calls) :
          remote_calls[c].outcome = "raises" =>
              \E i \in RecordsNamed(remote_calls[c].name) :
                  /\ FailureReason \in Range(analyses[i].ai_explanation)
                  /\ analyses[i].ai_suggestion = GenericSuggestion
    /\ (pc = "loop" /\ k < Len(function_defs)) => ENABLED analyze_file_enhanced_step
    /\ (pc = "loop" /\ k = Len(function_defs)) => ENABLED analyze_file_enhanced_return
    /\ pc = "done" => HasRecords(DictKeys(function_defs))

\* the remote call raised for the first function and the run went on to
\* analyse another one and completed
C10_Witness ==
    /\ pc = "done"
    /\ Len(remote_calls) >= 1
    /\ remote_calls[1].outcome = "raises"
    /\ Len(analyses) >= 2
    /\ analyses[1].name = remote_calls[1].name
    /\ FailureReason \in Range(analyses[1].ai_explanation)

-----------------------------------------------------------------------------
(* Tree-level removal.                                                     *)

\* ast.unparse of one node: its line at its depth; a function or class
\* definition is preceded by an empty line unless it opens the output
UnparseNode(t, i) ==
    (IF t[i].kind \in {"FunctionDef", "AsyncFunctionDef", "ClassDef"} /\ i > 1
     THEN <<BlankLine>> ELSE <<>>)
    \o <<MkLine(t[i].ind, t[i].kind, t[i].name, t[i].func)>>

RECURSIVE UnparseFrom(_, _)
UnparseFrom(t, i) ==
    IF i > Len(t) THEN <<>> ELSE UnparseNode(t, i) \o UnparseFrom(t, i + 1)

\* ast.unparse(tree): the lines are joined by newlines, so the last line of
\* the string has none
ast_unparse(t) == NoFinalNewline(UnparseFrom(t, 1))

\* the statement of tree.body that node j belongs to
TopLevelOf(t, j) ==
    LET above == { i \in 1..j : t[i].ind = 0 }
    IN  CHOOSE i \in above : \A m \in above : m <= i

\* a faulty variant: the test of the name is missing its "not"
IsDeadCode_Inverted(n, names) == n.kind = "FunctionDef" /\ ~InList(n.name, names)

\* isinstance(node, ast.FunctionDef) and node.name in unused_funcs
IsDeadCode(n, names) == n.kind = "FunctionDef" /\ InList(n.name, names)

\* tree.body = [node for node in tree.body if not dead code]
WithoutDeadCode(t, names) ==
    LET keep == SelectSeq([j \in 1..Len(t) |-> j],
                          LAMBDA j : ~IsDeadCode(t[TopLevelOf(t, j)], names))
    IN  [m \in 1..Len(keep) |-> t[keep[m]]]

remove_dead_code_from_source(text, names) ==
    ast_unparse(WithoutDeadCode(ast_parse(text), names))

-----------------------------------------------------------------------------
(* difflib.unified_diff(a, b, fromfile, tofile, lineterm='').  Indices are *)
(* 0-based and ranges half-open as in difflib; a[i] of difflib is a[i + 1] *)
(* here.                                                                   *)

\* a faulty variant: one more line of context
ContextLines_Four == 3 + 1

\* the context lines unified_diff keeps: its parameter n is left at the default
ContextLines == 3

Max(x, y) == IF x >= y THEN x ELSE y
Min(x, y) == IF x <= y THEN x ELSE y

RECURSIVE RunLength(_, _, _, _, _, _)
RunLength(a, b, i, j, ahi, bhi) ==
    IF i < ahi /\ j < bhi /\ a[i + 1] = b[j + 1]
    THEN 1 + RunLength(a, b, i + 1, j + 1, ahi, bhi)
    ELSE 0

\* SequenceMatcher.find_longest_match without junk: the longest block, of
\* those the one that starts earliest in a, of those the earliest in b
find_longest_match(a, b, alo, ahi, blo, bhi) ==
    LET pairs == (alo..(ahi - 1)) \X (blo..(bhi - 1))
        len(x) == RunLength(a, b, x[1], x[2], ahi, bhi)
        sizes == { len(x) : x \in pairs } \cup {0}
        best == CHOOSE n \in sizes : \A m \in sizes : m <= n
    IN  IF best = 0 THEN <<alo, blo, 0>>
        ELSE LET hits == { x \in pairs : len(x) = best }
                 first == CHOOSE x \in hits :
                            \A y \in hits :
                                x[1] < y[1] \/ (x[1] = y[1] /\ x[2] <= y[2])
             IN  <<first[1], first[2], best>>

RECURSIVE MatchingBlocks(_, _, _, _, _, _)
MatchingBlocks(a, b, alo, ahi, blo, bhi) ==
    LET m == find_longest_match(a, b, alo, ahi, blo, bhi)
        i == m[1]
        j == m[2]
        n == m[3]
    IN  IF n = 0 THEN <<>>
        ELSE (IF alo < i /\ blo < j
              THEN MatchingBlocks(a, b, alo, i, blo, j) ELSE <<>>)
             \o <<m>>
             \o (IF i + n < ahi /\ j + n < bhi
                 THEN MatchingBlocks(a, b, i + n, ahi, j + n, bhi) ELSE <<>>)

\* adjacent blocks are collapsed into one
RECURSIVE MergeAdjacent(_)
MergeAdjacent(blocks) ==
    IF Len(blocks) < 2 THEN blocks
    ELSE LET x == blocks[1]
             y == blocks[2]
         IN  IF x[1] + x[3] = y[1] /\ x[2] + x[3] = y[2]
             THEN MergeAdjacent(<<<<x[1], x[2], x[3] + y[3]>>>> \o SubSeq(blocks, 3, Len(blocks)))
             ELSE <<x>> \o MergeAdjacent(Tail(blocks))

\* SequenceMatcher.get_matching_blocks, with the closing (len(a), len(b), 0)
get_matching_blocks(a, b) ==
    Append(MergeAdjacent(MatchingBlocks(a, b, 0, Len(a), 0, Len(b))),
           <<Len(a), Len(b), 0>>)

Opcode(tag, i1, i2, j1, j2) == [tag |-> tag, i1 |-> i1, i2 |-> i2, j1 |-> j1, j2 |-> j2]

RECURSIVE OpcodesFrom(_, _, _, _)
OpcodesFrom(blocks, m, i, j) ==
    IF m > Len(blocks) THEN <<>>
    ELSE LET ai == blocks[m][1]
             bj == blocks[m][2]
             size == blocks[m][3]
             tag == IF i < ai /\ j < bj THEN "replace"
                    ELSE IF i < ai THEN "delete"
                    ELSE IF j < bj THEN "insert"
                    ELSE ""
         IN  (IF tag # "" THEN <<Opcode(tag, i, ai, j, bj)>> ELSE <<>>)
             \o (IF size > 0
                 THEN <<Opcode("equal", ai, ai + size, bj, bj + size)>> ELSE <<>>)
             \o OpcodesFrom(blocks, m + 1, ai + size, bj + size)

\* SequenceMatcher.get_opcodes
get_opcodes(a, b) == OpcodesFrom(get_matching_blocks(a, b), 1, 0, 0)

\* the first and the last opcode, when equal, are cut to n lines of context
TrimEnds(codes, n) ==
    LET c0 == IF codes = <<>> THEN <<Opcode("equal", 0, 1, 0, 1)>> ELSE codes
        f == c0[1]
        c1 == IF f.tag = "equal"
              THEN [c0 EXCEPT ![1] = Opcode("equal", Max(f.i1, f.i2 - n), f.i2,
                                            Max(f.j1, f.j2 - n), f.j2)]
              ELSE c0
        l == c1[Len(c1)]
    IN  IF l.tag = "equal"
        THEN [c1 EXCEPT ![Len(c1)] = Opcode("equal", l.i1, Min(l.i2, l.i1 + n),
                                            l.j1, Min(l.j2, l.j1 + n))]
        ELSE c1

\* the loop of get_grouped_opcodes: a long run of equal lines ends a group
RECURSIVE GroupFrom(_, _, _, _)
GroupFrom(codes, m, group, n) ==
    IF m > Len(codes)
    THEN IF group # <<>> /\ ~(Len(group) = 1 /\ group[1].tag = "equal")
         THEN <<group>> ELSE <<>>
    ELSE LET c == codes[m] IN
         IF c.tag = "equal" /\ c.i2 - c.i1 > n + n
         THEN <<Append(group, Opcode("equal", c.i1, Min(c.i2, c.i1 + n),
                                     c.j1, Min(c.j2, c.j1 + n)))>>
              \o GroupFrom(codes, m + 1,
                           <<Opcode("equal", Max(c.i1, c.i2 - n), c.i2,
                                    Max(c.j1, c.j2 - n), c.j2)>>, n)
         ELSE GroupFrom(codes, m + 1, Append(group, c), n)

\* SequenceMatcher.get_grouped_opcodes(n)
get_grouped_opcodes(a, b, n) == GroupFrom(TrimEnds(get_opcodes(a, b), n), 1, <<>>, n)

NoLine == MkLine(0, "", NoName, "")

DiffLine(tag, line, label) == [tag |-> tag, line |-> line, label |-> label]

\* _format_range_unified
format_range_unified(start, stop) ==
    LET length == stop - start IN
    IF length = 1 THEN <<start + 1>>
    ELSE IF length = 0 THEN <<start, length>>
    ELSE <<start + 1, length>>

RECURSIVE Prefixed(_, _, _, _)
Prefixed(tag, lines, lo, hi) ==
    IF lo >= hi THEN <<>>
    ELSE <<DiffLine(tag, lines[lo + 1], <<>>)>> \o Prefixed(tag, lines, lo + 1, hi)

RECURSIVE HunkBody(_, _, _, _)
HunkBody(a, b, group, m) ==
    IF m > Len(group) THEN <<>>
    ELSE LET c == group[m] IN
         (IF c.tag = "equal" THEN Prefixed(" ", a, c.i1, c.i2)
          ELSE (IF c.tag \in {"replace", "delete"}
                THEN Prefixed("-", a, c.i1, c.i2) ELSE <<>>)
               \o (IF c.tag \in {"replace", "insert"}
                   THEN Prefixed("+", b, c.j1, c.j2) ELSE <<>>))
         \o HunkBody(a, b, group, m + 1)

Hunk(a, b, group) ==
    LET first == group[1]
        last == group[Len(group)]
    IN  <<DiffLine("@@", NoLine,
                   <<format_range_unified(first.i1, last.i2),
                     format_range_unified(first.j1, last.j2)>>)>>
        \o HunkBody(a, b, group, 1)

RECURSIVE Hunks(_, _, _, _)
Hunks(a, b, groups, m) ==
    IF m > Len(groups) THEN <<>>
    ELSE Hunk(a, b, groups[m]) \o Hunks(a, b, groups, m + 1)

\* the lines unified_diff yields: the two file headers before the first
\* hunk, nothing at all when there is no hunk
unified_diff(a, b, fromfile, tofile) ==
    LET groups == get_grouped_opcodes(a, b, ContextLines) IN
    IF groups = <<>> THEN <<>>
    ELSE <<DiffLine("---", NoLine, fromfile), DiffLine("+++", NoLine, tofile)>>
         \o Hunks(a, b, groups, 1)

FileName == <<"filename">>

\* enhanced_analyzer.generate_diff; the texts are kept as their splitlines
generate_diff(original, cleaned, filename) ==
    unified_diff(original, cleaned, filename, filename \o <<".cleaned">>)

-----------------------------------------------------------------------------
(* Line-range removal.                                                     *)

DeadPrefix == <<"u", "n", "u", "s", "e", "d", "_">>

\* node.lineno: the number of the line of the text the node is written on
RECURSIVE LineNumbers(_, _)
LineNumbers(text, i) ==
    IF i > Len(text) THEN <<>>
    ELSE (IF IsSignificant(text[i]) THEN <<i>> ELSE <<>>) \o LineNumbers(text, i + 1)

\* the nodes of ast.parse(text) in document order, each with its lineno; the
\* Pass of a block written on one line is on the line of the block
RECURSIVE LinenoFrom(_, _, _)
LinenoFrom(text, sig, i) ==
    IF i > Len(sig) THEN <<>>
    ELSE LET l == text[sig[i]]
             hasBody == i < Len(sig) /\ text[sig[i + 1]].ind > l.ind
         IN  <<sig[i]>>
             \o (IF l.kind \in BlockKinds /\ ~hasBody THEN <<sig[i]>> ELSE <<>>)
             \o LinenoFrom(text, sig, i + 1)

lineno(text) == LinenoFrom(text, LineNumbers(text, 1), 1)

\* DeadCodeDetector.analyze_file: every FunctionDef whose name starts with
\* 'unused_', in the order of ast.walk
DeadCodeDetector_analyze(text) ==
    LET t == ast_parse(text)
        nodes == SelectSeq(ast_walk(t),
                     LAMBDA i : /\ IsFunctionDef(t[i])
                                /\ startswith(t[i].name, DeadPrefix))
    IN  [m \in 1..Len(nodes) |->
            [name |-> t[nodes[m]].name,
             line |-> lineno(text)[nodes[m]],
             lines |-> Cardinality(Body(t, nodes[m]))]]

\* a faulty variant: the window takes one line more at its end
remove_lines_Inclusive(original_lines, dead) ==
    UNION { (dead[m].line - 1)
              ..Min(dead[m].line - 1 + dead[m].lines, Len(original_lines) - 1) :
            m \in 1..Len(dead) }

\* the indices generate_dead_code_diff marks for deletion
remove_lines(original_lines, dead) ==
    UNION { (dead[m].line - 1)
              ..(Min(dead[m].line - 1 + dead[m].lines, Len(original_lines)) - 1) :
            m \in 1..Len(dead) }

\* new_lines of generate_dead_code_diff
new_lines(original_lines, dead) ==
    LET keep == SelectSeq([i \in 1..Len(original_lines) |-> i],
                          LAMBDA i : (i - 1) \notin remove_lines(original_lines, dead))
    IN  [m \in 1..Len(keep) |-> original_lines[keep[m]]]

-----------------------------------------------------------------------------
(* The removal operations as steps.                                        *)

\* cleaned_code = remove_dead_code_from_source(original_code, unused_funcs)
remove_dead_code ==
    /\ pc = "source"
    /\ cleaned_code' = remove_dead_code_from_source(source, unused_funcs)
    /\ pc' = "removed"
    /\ UNCHANGED <<otherVars, inputVars, analysisVars, unused_funcs, diff, dead_functions,
                   mainVars, exception>>

\* diff = generate_diff(original_code, cleaned_code, filepath)
show_diff ==
    /\ pc = "removed"
    /\ diff' = generate_diff(source, cleaned_code, FileName)
    /\ pc' = "diffed"
    /\ UNCHANGED <<otherVars, inputVars, analysisVars, unused_funcs, cleaned_code,
                   dead_functions, mainVars, exception>>

\* the cleaned text is parsed and indexed again
reindex ==
    /\ pc = "removed"
    /\ tree' = ast_parse(cleaned_code)
    /\ function_defs' = find_function_defs(tree')
    /\ pc' = "reindexed"
    /\ UNCHANGED <<otherVars, inputVars, client, function_calls, async_funcs, threaded_funcs,
                   k, analyses, unused, remote_calls, removalVars, mainVars,
                   exception>>

\* dead_functions = DeadCodeDetector.analyze_file(filepath)
detect_dead_code ==
    /\ pc = "source"
    /\ dead_functions' = DeadCodeDetector_analyze(source)
    /\ pc' = "detected"
    /\ UNCHANGED <<otherVars, inputVars, analysisVars, unused_funcs, cleaned_code, diff,
                   mainVars, exception>>

\* generate_dead_code_diff(filepath, dead_functions)
generate_dead_code_diff ==
    /\ pc = "detected"
    /\ cleaned_code' = new_lines(source, dead_functions)
    /\ diff' = unified_diff(source, cleaned_code', FileName, FileName \o <<".cleaned">>)
    /\ pc' = "line_diffed"
    /\ UNCHANGED <<otherVars, inputVars, analysisVars, unused_funcs, dead_functions,
                   mainVars, exception>>

NextRemoval ==
    \/ remove_dead_code
    \/ show_diff
    \/ reindex
    \/ detect_dead_code
    \/ generate_dead_code_diff

RemovalShapes ==
    { MkLine(0, "FunctionDef", NameA, ""),
      MkLine(0, "FunctionDef", NameDead, ""),
      MkLine(0, "AsyncFunctionDef", NameA, ""),
      MkLine(0, "Assign", NoName, ""),
      CommentLine,
      BlankLine }

RemovalNameLists == { <<>>, <<NameA>>, <<NameDead>>, <<NameA, NameDead>> }

WithAndWithoutFinalNewline(texts) == texts \cup { NoFinalNewline(t) : t \in texts }

InitRemoval ==
    /\ source \in WithAndWithoutFinalNewline(TextsOver(RemovalShapes, MaxSourceLines))
    /\ unused_funcs \in RemovalNameLists
    /\ api_key = None
    /\ LLM_AVAILABLE = FALSE
    /\ pc = "source"
    /\ exception = NoException
    /\ AnalysisIdle
    /\ cleaned_code = <<>>
    /\ diff = <<>>
    /\ dead_functions = <<>>
    /\ MainIdle

SpecRemoval == InitRemoval /\ [][NextRemoval]_vars

DiffShapes ==
    { MkLine(0, "FunctionDef", NameDead, ""),
      MkLine(0, "Assign", NoName, ""),
      CommentLine }

InitDiff ==
    /\ source \in WithAndWithoutFinalNewline(TextsOver(DiffShapes, MaxDiffLines))
    /\ unused_funcs \in { <<>>, <<NameDead>> }
    /\ api_key = None
    /\ LLM_AVAILABLE = FALSE
    /\ pc = "source"
    /\ exception = NoException
    /\ AnalysisIdle
    /\ cleaned_code = <<>>
    /\ diff = <<>>
    /\ dead_functions = <<>>
    /\ MainIdle

SpecDiff == InitDiff /\ [][NextRemoval]_vars

-----------------------------------------------------------------------------
(* Properties of removal and diff.                                         *)

\* the nodes of t outside the top-level statements that satisfy Dropped
Without(t, Dropped(_)) ==
    LET keep == SelectSeq([j \in 1..Len(t) |-> j],
                          LAMBDA j : ~Dropped(t[TopLevelOf(t, j)]))
    IN  [m \in 1..Len(keep) |-> t[keep[m]]]

\* C4: tree-level removal omits exactly the top-level function declarations
\* named in N and keeps every other node unchanged and in order; nested
\* functions stay, and a name that matches nothing changes nothing and
\* raises nothing.
C4_TopLevelRemoval ==
    pc = "removed" =>
        /\ exception = NoException
        /\ ast_parse(cleaned_code) =
              Without(ast_parse(source),
                      LAMBDA n : /\ n.kind \in {"FunctionDef", "AsyncFunctionDef"}
                                 /\ n.name \in Range(unused_funcs))

\* the same statement of the synchronous declarations alone
SyncTopLevelRemoval ==
    pc = "removed" =>
        /\ exception = NoException
        /\ ast_parse(cleaned_code) =
              Without(ast_parse(source),
                      LAMBDA n : n.kind = "FunctionDef" /\ n.name \in Range(unused_funcs))

\* C5: removing the empty name set returns the input text unchanged, and the
\* diff of the input against the output is empty; neither step raises.
C5_EmptyRemovalIdentity ==
    unused_funcs = <<>> =>
        /\ exception = NoException
        /\ pc \in {"removed", "diffed"} => cleaned_code = source
        /\ pc = "diffed" => diff = <<>>

Diffed == pc \in {"diffed", "line_diffed"}

\* C7 as stated: no line of the diff is a context line.
C7_NoContextLines ==
    Diffed => \A p \in 1..Len(diff) : diff[p].tag # " "

\* C7 amended: the diff of either strategy holds the two file headers, hunk
\* headers, removed and added lines, and context lines; a context line is a
\* line of the original within three lines of a removed or added line of its
\* hunk; identical texts give the empty diff.
C7_ContextWithinThree ==
    Diffed =>
        /\ diff = <<>> <=> source = cleaned_code
        /\ diff # <<>> =>
              /\ diff[1] = DiffLine("---", NoLine, FileName)
              /\ diff[2] = DiffLine("+++", NoLine, FileName \o <<".cleaned">>)
              /\ diff[3].tag = "@@"
              /\ \A p \in 3..Len(diff) : diff[p].tag \in {"@@", "-", "+", " "}
        /\ \A p \in 1..Len(diff) :
              /\ diff[p].tag \in {"-", " "} => diff[p].line \in Range(source)
              /\ diff[p].tag \in {"+", " "} => diff[p].line \in Range(cleaned_code)
              /\ diff[p].tag = " " =>
                    \E q \in 1..Len(diff) :
                        /\ diff[q].tag \in {"-", "+"}
                        /\ q - p <= 3 /\ p - q <= 3
                        /\ \A r \in Min(p, q)..Max(p, q) : diff[r].tag # "@@"

\* a diff that removes a line and shows an unchanged line as context
C7_Witness ==
    /\ Diffed
    /\ \E p \in 1..Len(diff) : diff[p].tag = "-"
    /\ \E p \in 1..Len(diff) : diff[p].tag = " " /\ diff[p].line \in Range(cleaned_code)

-----------------------------------------------------------------------------
(* The command-line run: main().                                           *)

\* the threshold of "if a.estimated_flops > 50"
InefficiencyThreshold == 50

RECURSIVE AnalysesFrom(_, _, _, _, _)
AnalysesFrom(t, defs, m, cl, outcome) ==
    IF m > Len(defs) THEN <<>>
    ELSE (IF startswith(defs[m].name, ReservedPrefix) THEN <<>>
          ELSE <<FunctionAnalysis(
                    create_function_analysis(defs[m].name, t, defs[m].node,
                        ~InList(defs[m].name, find_function_calls(t)),
                        detect_async_patterns(t), detect_threading_patterns(t),
                        cl, outcome))>>)
         \o AnalysesFrom(t, defs, m + 1, cl, outcome)

\* analyze_file_enhanced as a whole, every remote call of the file ending
\* the same way
analyze_file_enhanced(text, cl, outcome) ==
    LET t == ast_parse(text) IN AnalysesFrom(t, find_function_defs(t), 1, cl, outcome)

UnusedNames(as) ==
    LET u == SelectSeq(as, LAMBDA a : a.is_unused) IN [m \in 1..Len(u) |-> u[m].name]

\* [node for node in ast.parse(original_code).body
\*       if isinstance(node, ast.FunctionDef) and node.name == a.name]
TopLevelDefsNamed(text, name) ==
    LET t == ast_parse(text) IN
    { j \in ModuleBody(t) : t[j].kind = "FunctionDef" /\ t[j].name = name }

\* the rewrite loop of main(): the exception it ends with, if any
RECURSIVE RewriteLoop(_, _, _)
RewriteLoop(as, m, code) ==
    IF m > Len(as) THEN NoException
    ELSE IF as[m].estimated_flops > InefficiencyThreshold
         THEN IF ~code.bound THEN "UnboundLocalError"
              ELSE IF TopLevelDefsNamed(code.text, as[m].name) = {} THEN "IndexError"
              ELSE RewriteLoop(as, m + 1, code)
         ELSE RewriteLoop(as, m + 1, code)

\* main() up to the loop over filepaths
main_setup ==
    /\ pc = "main"
    /\ openai_api_key' = openai_module_key(LLM_AVAILABLE, api_key, openai_api_key)
    /\ client' = LLMAnalyzer_client(LLM_AVAILABLE, api_key)
    /\ tracker' \in IF args.track_energy THEN {"None", "started"} ELSE {"None"}
    /\ pc' = "files"
    /\ UNCHANGED <<baseline, backendVars, runs, inputVars, tree, function_defs, function_calls, async_funcs,
                   threaded_funcs, k, analyses, unused, remote_calls,
                   removalVars, files, fi, args, original_code, all_analyses,
                   written, exception>>

\* one iteration of "for filepath in filepaths"
main_file ==
    /\ pc = "files"
    /\ fi < Len(files)
    /\ \E outcome \in IF client = NoClient THEN {"none"} ELSE RemoteOutcomes :
         LET text == files[fi + 1]
             as == analyze_file_enhanced(text, client, outcome)
             names == UnusedNames(as)
             code == IF names # <<>> THEN [bound |-> TRUE, text |-> text]
                     ELSE original_code
             raised == IF args.rewrite_inefficient /\ Truthy(api_key)
                       THEN RewriteLoop(as, 1, code) ELSE NoException
         IN  /\ analyses' = as
             /\ all_analyses' = all_analyses \o as
             /\ unused_funcs' = names
             /\ original_code' = code
             /\ cleaned_code' = IF names # <<>>
                                THEN remove_dead_code_from_source(text, names)
                                ELSE cleaned_code
             /\ diff' = IF names # <<>> /\ args.show_diff
                        THEN generate_diff(text, cleaned_code', FileName)
                        ELSE diff
             /\ written' = IF names # <<>> /\ args.safe_remove
                           THEN Append(written, cleaned_code')
                           ELSE written
             /\ exception' = raised
             /\ IF raised = NoException
                THEN fi' = fi + 1 /\ pc' = pc
                ELSE fi' = fi /\ pc' = "crashed"
    /\ UNCHANGED <<otherVars, inputVars, client, tree, function_defs, function_calls,
                   async_funcs, threaded_funcs, k, unused, remote_calls,
                   dead_functions, files, args, tracker>>

\* the end of main(): stop_tracking and print_enhanced_report
main_report ==
    /\ pc = "files"
    /\ fi = Len(files)
    /\ tracker' = IF args.track_energy /\ tracker = "started" THEN "stopped" ELSE tracker
    /\ pc' = "reported"
    /\ UNCHANGED <<otherVars, inputVars, analysisVars, removalVars, files, fi, args,
                   original_code, all_analyses, written, exception>>

NextMain ==
    \/ main_setup
    \/ main_file
    \/ main_report

RECURSIVE Repeat(_, _)
Repeat(l, n) == IF n = 0 THEN <<>> ELSE <<l>> \o Repeat(l, n - 1)

\* a function whose body is HeavyLoops loops, each written on one line
CostlyBody(ind) == Repeat(MkLine(ind, "For", NoName, ""), HeavyLoops)

MainBlocks ==
    << <<MkLine(0, "FunctionDef", NameA, "")>> \o CostlyBody(1),
       <<MkLine(0, "ClassDef", NoName, ""), MkLine(1, "FunctionDef", NameB, "")>>
           \o CostlyBody(2),
       <<MkLine(0, "Call", NameA, "Name")>> >>

RECURSIVE Selected(_, _)
Selected(chosen, m) ==
    IF m > Len(MainBlocks) THEN <<>>
    ELSE (IF m \in chosen THEN MainBlocks[m] ELSE <<>>) \o Selected(chosen, m + 1)

MainFiles == { Selected(chosen, 1) : chosen \in SUBSET (1..Len(MainBlocks)) }

RECURSIVE FileLists(_)
FileLists(n) ==
    IF n = 0 THEN {<<>>}
    ELSE FileLists(n - 1)
         \cup { Append(l, f) : <<l, f>> \in { x \in FileLists(n - 1) \X MainFiles :
                                              Len(x[1]) = n - 1 } }

InitMain ==
    /\ files \in FileLists(MaxFiles) \ {<<>>}
    /\ args \in [show_diff : BOOLEAN, safe_remove : BOOLEAN,
                 rewrite_inefficient : BOOLEAN, track_energy : BOOLEAN]
    /\ api_key \in {None, Key}
    /\ LLM_AVAILABLE \in BOOLEAN
    /\ source = <<>>
    /\ pc = "main"
    /\ exception = NoException
    /\ AnalysisIdle
    /\ RemovalIdle
    /\ fi = 0
    /\ original_code = Unbound
    /\ all_analyses = <<>>
    /\ written = <<>>
    /\ tracker = "None"
    /\ OtherIdle

SpecMain == InitMain /\ [][NextMain]_vars

\* C8: for syntactically valid files and every combination of options the
\* run raises nothing, reaches its end and delivers the analyses of all the
\* files.
C8_RunCompletes ==
    /\ exception = NoException
    /\ pc # "crashed"
    /\ pc = "reported" => fi = Len(files)

-----------------------------------------------------------------------------
(* The cost estimators on texts with loops, conditionals and operations,   *)
(* and the same text with one more loop.                                   *)

MaxCostLines == 3

LoopKinds == {"For", "While", "AsyncFor"}

CostShapes ==
    { MkLine(0, "FunctionDef", NameA, ""),
      MkLine(0, "FunctionDef", NameB, ""),
      MkLine(0, "For", NoName, ""),
      MkLine(0, "If", NoName, ""),
      MkLine(0, "Try", NoName, ""),
      MkLine(0, "BinOp", NoName, ""),
      MkLine(0, "Compare", NoName, ""),
      MkLine(0, "Call", NameB, "Name") }

\* analyses = analyze_file_enhanced(filepath, energy_tracker, llm_analyzer)
analyze_file_enhanced_call ==
    /\ pc = "source"
    /\ tree' = ast_parse(source)
    /\ function_defs' = find_function_defs(tree')
    /\ analyses' = analyze_file_enhanced(source, NoClient, "none")
    /\ pc' = "measured"
    /\ UNCHANGED <<inputVars, client, function_calls, async_funcs, threaded_funcs,
                   k, unused, remote_calls, removalVars, mainVars, exception,
                   otherVars>>

\* the text with the line l put after its line p
InsertLine(text, p, l) ==
    SubSeq(text, 1, p) \o <<l>> \o SubSeq(text, p + 1, Len(text))

\* a loop written on one line ("for x in y: pass") may be put at depth d
\* after line p when it lands in the block open there and takes no line of
\* the text into its own body
MayInsert(text, p, d) ==
    /\ p \in 1..Len(text)
    /\ d >= 1
    /\ d <= text[p].ind + (IF text[p].kind \in BlockKinds THEN 1 ELSE 0)
    /\ p < Len(text) => text[p + 1].ind <= d

\* the file is edited, one loop is added, and the file is analysed again
add_loop ==
    /\ pc = "measured"
    /\ \E p \in 1..Len(source), d \in 1..Len(source), kind \in LoopKinds :
          /\ MayInsert(source, p, d)
          /\ source' = InsertLine(source, p, MkLine(d, kind, NoName, ""))
          /\ baseline' = [analyses |-> analyses, line |-> p + 1]
    /\ tree' = ast_parse(source')
    /\ function_defs' = find_function_defs(tree')
    /\ analyses' = analyze_file_enhanced(source', NoClient, "none")
    /\ pc' = "extended"
    /\ UNCHANGED <<api_key, LLM_AVAILABLE, client, function_calls, async_funcs,
                   threaded_funcs, k, unused, remote_calls, removalVars, mainVars,
                   exception, backendVars, parallelVars>>

NextCost ==
    \/ analyze_file_enhanced_call
    \/ add_loop

InitCost ==
    /\ source \in TextsOver(CostShapes, MaxCostLines)
    /\ api_key = None
    /\ LLM_AVAILABLE = FALSE
    /\ pc = "source"
    /\ exception = NoException
    /\ AnalysisIdle
    /\ RemovalIdle
    /\ MainIdle

SpecCost == InitCost /\ [][NextCost]_vars

\* the nodes of the given kinds among node d and the nodes below it, counted
\* one by one in document order
RECURSIVE Occurrences(_, _, _, _)
Occurrences(t, d, j, kinds) ==
    IF j > Len(t) \/ (j > d /\ t[j].ind <= t[d].ind) THEN 0
    ELSE (IF t[j].kind \in kinds THEN 1 ELSE 0) + Occurrences(t, d, j + 1, kinds)

\* the declaration the index holds for the name of record i
Indexed(i) == function_defs[DictGet(function_defs, analyses[i].name)].node

Measured == pc \in {"measured", "extended"}

AddedNode ==
    CHOOSE n \in 1..Len(tree) :
        lineno(source)[n] = baseline.line /\ tree[n].kind \in LoopKinds

\* C12: when a loop of any kind (for, while, async for) is added anywhere in
\* the body of a function and nothing else changes, the operation cost
\* reported for the function is strictly greater than before.
C12_LoopRaisesCost ==
    pc = "extended" =>
        \A i \in 1..Len(analyses) :
            AddedNode \in Subtree(tree, Indexed(i)) =>
                analyses[i].estimated_flops > baseline.analyses[i].estimated_flops

\* the statements of the body of node d, counted one by one
RECURSIVE Statements(_, _, _)
Statements(t, d, j) ==
    IF j > Len(t) \/ (j > d /\ t[j].ind <= t[d].ind) THEN 0
    ELSE (IF t[j].ind = t[d].ind + 1 THEN 1 ELSE 0) + Statements(t, d, j + 1)

Namesakes(i) ==
    { d \in 1..Len(tree) : tree[d].kind = "FunctionDef" /\ tree[d].name = analyses[i].name }

\* record i reports the statement count, operation cost and energy of node d
Reports(i, d) ==
    /\ analyses[i].line_count = Statements(tree, d, d)
    /\ analyses[i].estimated_flops =
            Occurrences(tree, d, d, {"BinOp", "Compare"})
          + 10 * Occurrences(tree, d, d, {"For", "While"})
          + 5 * Occurrences(tree, d, d, {"Call"})
    /\ analyses[i].energy_impact =
            2 * Statements(tree, d, d)
          + 5 * Occurrences(tree, d, d, {"For", "While", "If", "Try"})

\* C17 as stated: when declarations share a name, the record of the name
\* reports the first of them.
C17_FirstDefinitionWins ==
    Measured =>
        \A i \in 1..Len(analyses) :
            Reports(i, CHOOSE d \in Namesakes(i) : \A e \in Namesakes(i) : d <= e)

\* d comes after e in breadth-first order: deeper, or as deep and later in
\* the text
After(d, e) ==
    \/ tree[d].ind > tree[e].ind
    \/ tree[d].ind = tree[e].ind /\ d >= e

\* C17 amended: when declarations share a name, the index maps the name to
\* the last of them in breadth-first order (the deepest, and among those the
\* last in the text), and the record of the name reports that one.
C17_LastDefinitionWins ==
    Measured =>
        \A i \in 1..Len(analyses) :
            LET last == CHOOSE d \in Namesakes(i) : \A e \in Namesakes(i) : After(d, e)
            IN  Indexed(i) = last /\ Reports(i, last)

\* two declarations of one name with different costs, the later one reported
C17_Witness ==
    /\ pc = "measured"
    /\ \E i \in 1..Len(analyses) :
          \E d \in Namesakes(i), e \in Namesakes(i) :
              /\ d < e
              /\ Reports(i, e)
              /\ ~Reports(i, d)

-----------------------------------------------------------------------------
(* The usage classifier on texts with asynchronous functions, await        *)
(* expressions and thread calls.                                           *)

MaxClassifierLines == 3

NameStart == <<"s", "t", "a", "r", "t">>
NameRun == <<"r", "u", "n">>

ClassifierShapes ==
    { MkLine(0, "FunctionDef", NameA, ""),
      MkLine(0, "FunctionDef", NameB, ""),
      MkLine(0, "AsyncFunctionDef", NameA, ""),
      MkLine(0, "Await", NoName, ""),
      MkLine(0, "Call", NameStart, "Attribute"),
      MkLine(0, "Call", NameRun, "Name") }

InitClassifier ==
    /\ source \in TextsOver(ClassifierShapes, MaxClassifierLines)
    /\ api_key = None
    /\ LLM_AVAILABLE = FALSE
    /\ pc = "new"
    /\ exception = NoException
    /\ AnalysisIdle
    /\ RemovalIdle
    /\ MainIdle

SpecClassifier == InitClassifier /\ [][Next]_vars

\* C14: every declared function (def or async def) is reported, and its
\* is_async is true exactly when it is declared async or an await expression
\* lies anywhere below it; a function declared async is reported is_async.
C14_AsyncExactly ==
    pc = "done" =>
        \A d \in Declarations(tree) :
            ~IsReserved(tree[d].name) =>
                /\ RecordsNamed(tree[d].name) # {}
                /\ (\A e \in Declarations(tree) : tree[e].name = tree[d].name => e = d)
                      => \A i \in RecordsNamed(tree[d].name) :
                            analyses[i].is_async <=>
                                \/ tree[d].kind = "AsyncFunctionDef"
                                \/ \E c \in Subtree(tree, d) : tree[c].kind = "Await"

\* a call below node d whose callee name, bare or trailing, is start, run or
\* join
HasThreadCall(t, d) ==
    \E c \in Subtree(t, d) :
        /\ t[c].kind = "Call"
        /\ t[c].func \in {"Name", "Attribute"}
        /\ t[c].name \in ThreadLifecycle

\* C15: is_threaded of every reported function is true exactly when a call
\* to start, run or join (bare name or member name) lies in the body of the
\* function, nested functions and the functions around them included.
C15_ThreadedExactly ==
    pc = "done" =>
        \A i \in 1..Len(analyses) :
            analyses[i].is_threaded <=> HasThreadCall(tree, Indexed(i))

-----------------------------------------------------------------------------
(* Line-range removal on any list of flagged functions.                    *)

MaxRangeLines == 3
MaxBody == 2

RangeShapes ==
    { MkLine(0, "FunctionDef", NameDead, ""),
      MkLine(0, "Assign", NoName, ""),
      CommentLine }

\* the dicts of dead_functions: a start line and a count of body statements
Flagged ==
    [name : {NameDead}, line : 1..(MaxRangeLines + 1), lines : 0..MaxBody]

FlaggedLists ==
    {<<>>} \cup { <<f>> : f \in Flagged } \cup { <<f, g>> : f \in Flagged, g \in Flagged }

InitRange ==
    /\ source \in TextsOver(RangeShapes, MaxRangeLines)
    /\ dead_functions \in FlaggedLists
    /\ unused_funcs = <<>>
    /\ api_key = None
    /\ LLM_AVAILABLE = FALSE
    /\ pc = "detected"
    /\ exception = NoException
    /\ AnalysisIdle
    /\ cleaned_code = <<>>
    /\ diff = <<>>
    /\ MainIdle

SpecRange == InitRange /\ [][generate_dead_code_diff]_vars

\* the 0-based window of flagged function m: [line - 1, line - 1 + lines)
Window(m) ==
    { i \in 0..(Len(source) - 1) :
        /\ dead_functions[m].line - 1 <= i
        /\ i < dead_functions[m].line - 1 + dead_functions[m].lines }

\* the 1-based numbers of the lines no window covers
KeptLines ==
    { n \in 1..Len(source) : \A m \in 1..Len(dead_functions) : (n - 1) \notin Window(m) }

-----------------------------------------------------------------------------
(* The web backend (backend/main.py): the registry of uploaded files and   *)
(* the requests that read and write it.  The handlers are coroutines that  *)
(* never await between their reads and writes of the registry, so each     *)
(* request is one step.                                                    *)

MaxUploads == 3

FilePy == <<"a", ".", "p", "y">>
FileTxt == <<"a", ".", "t", "x", "t">>
FileNames == {FilePy, FileTxt}

\* s.endswith(suffix)
endswith(s, suffix) ==
    /\ Len(s) >= Len(suffix)
    /\ SubSeq(s, Len(s) - Len(suffix) + 1, Len(s)) = suffix

PySuffix == <<".", "p", "y">>

\* what an uploaded file holds: a text that parses, or one that does not
Unparseable == <<MkLine(1, "Call", NameA, "Name")>>

\* ast.parse raises SyntaxError on a text whose indentation opens no block
Parses(text) ==
    \A i \in 1..Len(text) : MayFollow(SubSeq(text, 1, i - 1), text[i])

Contents == { <<MkLine(0, "FunctionDef", NameA, "")>>, Unparseable }

ErrorStatuses == {400, 404, 500}

Response(status, op, file_id) == [status |-> status, op |-> op, file_id |-> file_id]

\* the registry with one more item, or with the item of the key replaced
RegistrySet(registry, file_id, info) ==
    [i \in DOMAIN registry \cup {file_id} |-> IF i = file_id THEN info ELSE registry[i]]

\* file_id = len(uploaded_files) + 1
next_file_id(registry) == Cardinality(DOMAIN registry) + 1

\* POST /upload
upload_file ==
    /\ pc = "serving"
    /\ \E filename \in FileNames, content \in Contents, copied \in BOOLEAN :
          IF ~endswith(filename, PySuffix)
          THEN /\ response' = Response(400, "upload", 0)
               /\ UNCHANGED <<uploaded_files, temp_dirs, made_dirs>>
          ELSE /\ made_dirs < MaxUploads
               /\ made_dirs' = made_dirs + 1
               /\ temp_dirs' = temp_dirs \cup {made_dirs'}
               /\ IF ~copied
                  THEN /\ response' = Response(500, "upload", 0)
                       /\ UNCHANGED uploaded_files
                  ELSE LET file_id == next_file_id(uploaded_files) IN
                       /\ uploaded_files' =
                             RegistrySet(uploaded_files, file_id,
                                 [filename |-> filename, path |-> made_dirs',
                                  content |-> content])
                       /\ response' = Response(200, "upload", file_id)
    /\ UNCHANGED <<inputVars, analysisVars, removalVars, mainVars, pc, exception,
                   baseline, parallelVars>>

\* POST /analyze/{file_id}
backend_analyze_file ==
    /\ pc = "serving"
    /\ \E file_id \in 1..(MaxUploads + 1), openai_key \in {None, Key},
          outcome \in RemoteOutcomes :
          IF file_id \notin DOMAIN uploaded_files
          THEN /\ response' = Response(404, "analyze", file_id)
               /\ UNCHANGED <<openai_api_key, analyses>>
          ELSE LET file_info == uploaded_files[file_id]
                   cl == LLMAnalyzer_client(LLM_AVAILABLE, openai_key)
               IN  /\ openai_api_key' = openai_module_key(LLM_AVAILABLE, openai_key,
                                                         openai_api_key)
                   /\ IF \/ file_info.path \notin temp_dirs
                         \/ ~Parses(file_info.content)
                      THEN /\ response' = Response(500, "analyze", file_id)
                           /\ UNCHANGED analyses
                      ELSE /\ analyses' = analyze_file_enhanced(file_info.content,
                                                                cl, outcome)
                           /\ response' = Response(200, "analyze", file_id)
    /\ UNCHANGED <<inputVars, client, tree, function_defs, function_calls,
                   async_funcs, threaded_funcs, k, unused, remote_calls,
                   removalVars, mainVars, pc, exception, baseline,
                   uploaded_files, temp_dirs, made_dirs, runs>>

\* GET /files
list_files ==
    /\ pc = "serving"
    /\ response' = [status |-> 200, op |-> "files", file_id |-> 0,
                    files |-> DOMAIN uploaded_files]
    /\ UNCHANGED <<inputVars, analysisVars, removalVars, mainVars, pc, exception,
                   baseline, uploaded_files, temp_dirs, made_dirs, parallelVars>>

\* a faulty variant: the entry is dropped before the directory is removed
RegistryAfterDelete_DelFirst(registry, file_id, removed) ==
    [i \in DOMAIN registry \ {file_id} |-> registry[i]]

\* shutil.rmtree(temp_dir); del uploaded_files[file_id] : the second
\* statement is reached only when the first did not raise
RegistryAfterDelete(registry, file_id, removed) ==
    IF removed THEN [i \in DOMAIN registry \ {file_id} |-> registry[i]] ELSE registry

\* DELETE /files/{file_id}
delete_file ==
    /\ pc = "serving"
    /\ \E file_id \in 1..(MaxUploads + 1), rmtree_ok \in BOOLEAN :
          IF file_id \notin DOMAIN uploaded_files
          THEN /\ response' = Response(404, "delete", file_id)
               /\ UNCHANGED <<uploaded_files, temp_dirs>>
          ELSE LET temp_dir == uploaded_files[file_id].path
                   removed == rmtree_ok /\ temp_dir \in temp_dirs
               IN  /\ temp_dirs' = IF removed THEN temp_dirs \ {temp_dir} ELSE temp_dirs
                   /\ uploaded_files' = RegistryAfterDelete(uploaded_files, file_id, removed)
                   /\ response' = Response(IF removed THEN 200 ELSE 500, "delete", file_id)
    /\ UNCHANGED <<inputVars, analysisVars, removalVars, mainVars, pc, exception,
                   baseline, made_dirs, parallelVars>>

NextBackend ==
    \/ upload_file
    \/ backend_analyze_file
    \/ list_files
    \/ delete_file

InitBackend ==
    /\ source = <<>>
    /\ api_key = None
    /\ LLM_AVAILABLE \in BOOLEAN
    /\ pc = "serving"
    /\ exception = NoException
    /\ AnalysisIdle
    /\ RemovalIdle
    /\ MainIdle

SpecBackend == InitBackend /\ [][NextBackend]_vars

\* C19: every successful upload returns a file_id that was not in the
\* registry at the moment of the upload, and leaves every entry that was
\* registered under its own id as it was.
C19_UploadIdsFresh ==
    [][(made_dirs' # made_dirs /\ response'.status = 200) =>
          /\ response'.file_id \notin DOMAIN uploaded_files
          /\ \A i \in DOMAIN uploaded_files :
                i \in DOMAIN uploaded_files' /\ uploaded_files'[i] = uploaded_files[i]]_vars

\* C20: a request that ends in an error response (400, 404, 500) leaves the
\* registry exactly as it was before the request.
C20_ErrorsKeepRegistry ==
    [][response'.status \in ErrorStatuses => uploaded_files' = uploaded_files]_vars

\* a delete whose directory removal failed, the entry still registered
C20_Witness ==
    /\ response.status = 500
    /\ response.op = "delete"
    /\ response.file_id \in DOMAIN uploaded_files

-----------------------------------------------------------------------------
(* Engine instances run side by side in one process: every instance has    *)
(* its own LLMAnalyzer and its own file, and the attribute api_key of the  *)
(* openai module is the one thing they have in common.  The statements of  *)
(* LLMAnalyzer.__init__ are separate steps, since another thread may run   *)
(* between any two of them.                                                *)

MaxInstances == 2

OtherKey == <<"s", "k", "2">>
InstanceKeys == {None, Key, OtherKey}

InstanceSources ==
    { <<MkLine(0, "FunctionDef", NameA, "")>>,
      <<MkLine(0, "FunctionDef", NameB, "")>>,
      <<MkLine(0, "FunctionDef", NameA, ""), MkLine(0, "Call", NameA, "Name")>> }

NewRun(key, text) ==
    [api_key |-> key, source |-> text, pc |-> "new", client |-> NoClient,
     client_key |-> None, analyses |-> <<>>]

\* the remote service answers a request made under the key it knows and
\* refuses every other key, which the client raises as an exception
ServiceOutcome(key) == IF key = Key THEN "json" ELSE "raises"

\* LLMAnalyzer.__init__ up to openai.api_key = api_key
run_set_key(r) ==
    /\ runs[r].pc = "new"
    /\ IF LLM_AVAILABLE /\ Truthy(runs[r].api_key)
       THEN /\ openai_api_key' =
                  openai_module_key(LLM_AVAILABLE, runs[r].api_key, openai_api_key)
            /\ runs' = [runs EXCEPT ![r].pc = "keyed"]
       ELSE /\ runs' = [runs EXCEPT ![r].pc = "ready"]
            /\ UNCHANGED openai_api_key

\* self.client = openai.OpenAI() : the client is given no key and is
\* configured with the key the module holds when it is built
run_make_client(r) ==
    /\ runs[r].pc = "keyed"
    /\ runs' = [runs EXCEPT ![r].pc = "ready",
                            ![r].client = LLMAnalyzer_client(LLM_AVAILABLE, runs[r].api_key),
                            ![r].client_key = openai_api_key]
    /\ UNCHANGED openai_api_key

\* analyze_file_enhanced(filepath, energy_tracker, llm_analyzer)
run_analyze(r) ==
    /\ runs[r].pc = "ready"
    /\ runs' = [runs EXCEPT ![r].pc = "done",
                            ![r].analyses =
                                analyze_file_enhanced(runs[r].source, runs[r].client,
                                                      ServiceOutcome(runs[r].client_key))]
    /\ UNCHANGED openai_api_key

set_key ==
    /\ pc = "parallel"
    /\ \E r \in DOMAIN runs : run_set_key(r)
    /\ UNCHANGED <<inputVars, analysisVars, removalVars, mainVars, pc, exception,
                   baseline, backendVars>>

make_client ==
    /\ pc = "parallel"
    /\ \E r \in DOMAIN runs : run_make_client(r)
    /\ UNCHANGED <<inputVars, analysisVars, removalVars, mainVars, pc, exception,
                   baseline, backendVars>>

analyze ==
    /\ pc = "parallel"
    /\ \E r \in DOMAIN runs : run_analyze(r)
    /\ UNCHANGED <<inputVars, analysisVars, removalVars, mainVars, pc, exception,
                   baseline, backendVars>>

NextParallel ==
    \/ set_key
    \/ make_client
    \/ analyze

InitParallel ==
    /\ source = <<>>
    /\ api_key = None
    /\ LLM_AVAILABLE \in BOOLEAN
    /\ pc = "parallel"
    /\ exception = NoException
    /\ AnalysisIdle
    /\ RemovalIdle
    /\ files = <<>>
    /\ fi = 0
    /\ args = NoArgs
    /\ original_code = Unbound
    /\ all_analyses = <<>>
    /\ written = <<>>
    /\ tracker = "None"
    /\ baseline = <<>>
    /\ uploaded_files = <<>>
    /\ temp_dirs = {}
    /\ made_dirs = 0
    /\ response = NoResponse
    /\ openai_api_key = None
    /\ runs \in [1..MaxInstances -> {NewRun(key, text) : key \in InstanceKeys,
                                                        text \in InstanceSources}]

SpecParallel == InitParallel /\ [][NextParallel]_vars

\* what the run returns when no other instance exists
Alone(r) ==
    analyze_file_enhanced(runs[r].source,
                          LLMAnalyzer_client(LLM_AVAILABLE, runs[r].api_key),
                          ServiceOutcome(runs[r].api_key))

====
